---- MODULE Spec2Model ----
(***************************************************************************)
(* Resumable-upload engine of storage3 (AsyncResumableUpload) and its      *)
(* session store (FileStore), as a state machine.                          *)
(*                                                                         *)
(* Python values are modelled as follows.  str -> TLA+ string; None -> the *)
(* sentinel NoneArg; dict -> function whose DOMAIN is the key set; decimal *)
(* wire text -> ToString of the number (int(...) is IntOf).  A byte range  *)
(* of a local file is <<file, start, count>>.  The transport and the       *)
(* remote server are the environment: every response is drawn from a small *)
(* set.  Time advances only at await points and between calls.             *)
(***************************************************************************)
EXTENDS Integers, Sequences, FiniteSets, TLC

VARIABLES
    now,           \* datetime.now().timestamp()
    fs,            \* local file system: file name -> size in bytes
    disk,          \* temp directory: one journal file per NamedTemporaryFile made
    disk_storage,  \* FileStore.disk_storage.name: index into disk
    storage,       \* FileStore.storage: in-memory dict key -> FileInfo
    server,        \* remote side: link -> the byte ranges held for that session
    call,          \* the running (or last finished) engine call and its locals
    trace,         \* transport requests issued by that call, in order
    response,      \* the last transport response that call received
    result,        \* how that call ended ("running" while it is suspended)
    ncalls,        \* calls made so far
    parked         \* a second coroutine of the event loop, not scheduled now

vars == <<now, fs, disk, disk_storage, storage, server, call, trace,
          response, result, ncalls, parked>>

----------------------------------------------------------------------------
(* Bounds of the model *)

MaxTime == 1        \* the clock stops advancing here
MaxIter == 3        \* chunk requests after which the server must finish or fail
MaxCalls == 3       \* calls a client makes in one run
MaxRestarts == 1    \* process restarts (SpecRestart, SpecJournal)

----------------------------------------------------------------------------
(* Program constants and the finite universes inputs are drawn from *)

MiB == 1048576      \* resumable.py:169
block_size == 65536 \* utils.py:33  (64 * 1024)

NoneArg == "<None>"                   \* Python None
Blank == {"", " "}                    \* strings with len(s.strip()) = 0

TusResumable == "Tus-Resumable"
UploadDeferLength == "Upload-Defer-Length"
UploadLength == "Upload-Length"
UploadMetadata == "Upload-Metadata"
UploadOffset == "Upload-Offset"
ContentType == "Content-Type"

\* the server names a session after the object it is for
LinkOf(obj) == "https://s/" \o obj
Links == {LinkOf("a.bin"), LinkOf("obj")}
ExpiresChoices == 0..MaxTime          \* instants a server may put in upload-expires
PartialUnit == MiB                    \* a partially accepted body keeps this many bytes
BigFile == "a.bin"
EmptyFileName == "empty.bin"
SecondFile == "b.bin"
BigSize == 2 * MiB + 1
SecondSize == 2 * MiB

\* numbers that can appear as decimal text on the wire
WireInts == {k * PartialUnit : k \in 0..2} \cup {BigSize}

EmptyMap == [x \in {} |-> 0]
Put(m, k, v) == [x \in (DOMAIN m) \cup {k} |-> IF x = k THEN v ELSE m[x]]
Del(m, k) == [x \in (DOMAIN m) \ {k} |-> m[x]]
Min(a, b) == IF a < b THEN a ELSE b
Abs(x) == IF x < 0 THEN -x ELSE x

\* str(n) and int(s) for decimal text
StrOf(n) == ToString(n)
IntOf(s) == CHOOSE n \in WireInts : ToString(n) = s

----------------------------------------------------------------------------
(* FileStore (utils.py) *)

\* A file of the temp directory: whether the name still exists, its size,
\* the mapping its text encodes, and whether the text is a whole JSON
\* document (a text cut short by an interrupted write is not).
EmptyFile == [present |-> TRUE, size |-> 0, doc |-> EmptyMap, whole |-> TRUE]

\* json.dumps / json.load of the whole mapping; "{}" already has two characters
JsonDumps(m) ==
    [present |-> TRUE, size |-> 2 + Cardinality(DOMAIN m), doc |-> m,
     whole |-> TRUE]
JsonLoad(f) == f.doc

\* persist(): the journal content written for in-memory mapping st
persist(st) == JsonDumps(st)

\* reload_storage(): the mapping read back from journal content f
reload_storage(f) == IF f.size > 0 THEN JsonLoad(f) ELSE EmptyMap

\* reload_storage(): how the call ends on journal f: os.stat raises when the
\* name is gone, json.load raises on a text that is not a whole document
reload_result(f) ==
    IF ~f.present THEN "FileNotFoundError"
    ELSE IF f.size > 0 /\ ~f.whole THEN "JSONDecodeError"
    ELSE "ok"

\* the temp file's name no longer exists
NoFile == [present |-> FALSE, size |-> 0, doc |-> EmptyMap, whole |-> TRUE]

\* persist() interrupted after open(name, "w"): the journal is truncated and
\* holds nothing, or the first n characters of the text being written
Interrupted(f) ==
    {EmptyFile}
    \cup {[f EXCEPT !.size = n, !.whole = FALSE] : n \in 1..(f.size - 1)}

\* fingerprint(): md5 over the first min(block_size, length) bytes of the file
Fingerprint(info) ==
    <<info.name, 0, Min(block_size, IntOf(info.length))>>

\* mark_file(): the in-memory mapping after recording info
mark_file_only(st, info) == Put(EmptyMap, info.name, info)
mark_file(st, info) ==
    LET full == IF Len(info.length) # 0
                THEN Put(Put(info, "fingerprint", Fingerprint(info)),
                         "mtime", 0)
                ELSE info
    IN  Put(st, info.name, full)

\* update_file_headers(): expiry test on the reloaded entry
is_link_expired_inclusive(file, t) == file.expiration_time <= t
is_link_expired_never(file, t) == FALSE
is_link_expired(file, t) == file.expiration_time < t

\* update_file_headers(), not expired: the mapping with headers[key] = value
set_header_replace(st, filename, key, value) ==
    [st EXCEPT ![filename].headers = Put(EmptyMap, key, value)]
set_header(st, filename, key, value) ==
    [st EXCEPT ![filename].headers = Put(@, key, value)]

\* delete_file_headers(): the mapping with key removed from the headers
drop_header_noop(st, filename, key) == st
drop_header(st, filename, key) ==
    IF key \in DOMAIN st[filename].headers
    THEN [st EXCEPT ![filename].headers = Del(@, key)]
    ELSE st

\* remove_file(): the mapping without the entry
remove_file_all(st, filename) == EmptyMap
remove_file(st, filename) == Del(st, filename)

\* get_link(): read of the in-memory mapping, no reload
get_link(st, filename) == st[filename].link

\* the journal currently on disk for this FileStore
Journal == disk[disk_storage]
OnDisk == reload_storage(Journal)

----------------------------------------------------------------------------
(* Engine helpers (resumable.py) *)

\* _is_valid_arg(): a str with a non-blank character
is_valid_arg_nostrip(t) == t # NoneArg /\ t # ""
is_valid_arg(t) == t # NoneArg /\ t \notin Blank

\* Python truthiness of an optional str
Truthy(t) == t # NoneArg /\ t # ""

\* _encode(): "k base64(v)" entries joined by ","
B64(v) == "b64<" \o v \o ">"
encode(bucket, obj) ==
    "bucketName " \o B64(bucket) \o ",objectName " \o B64(obj)

\* os.path.split(file)[1]; the model's file names have no directory part
Basename(f) == f

Request(method, url, headers, body) ==
    [method |-> method, url |-> url, headers |-> headers, body |-> body]
NoBody == <<>>

IdleCall == [op |-> "none", bucketname |-> NoneArg, objectname |-> NoneArg,
             filename |-> NoneArg, upload_defer |-> FALSE, link |-> NoneArg,
             mb_size |-> 1, key |-> NoneArg, target_file |-> NoneArg,
             storage_link |-> NoneArg, chunk_size |-> 0, open_files |-> 0,
             pc |-> "idle", e2e |-> FALSE]

----------------------------------------------------------------------------
(* Remote server (environment).  It keeps, per link, the byte ranges it has *)
(* accepted, answers an offset query with their total length, and answers  *)
(* everything else as it likes.                                            *)

NoSession == <<>>

RECURSIVE SumLen(_)
SumLen(data) ==
    IF data = <<>> THEN 0 ELSE data[1][3] + SumLen(Tail(data))

\* the offset the server reports for a link: the bytes it holds
SrvOffset(l) == SumLen(server[l])

\* the server appends the first acc bytes of a body to what it holds
AppendData(data, body, acc) ==
    IF acc = 0 THEN data
    ELSE IF data # <<>>
            /\ data[Len(data)][1] = body[1]
            /\ data[Len(data)][2] + data[Len(data)][3] = body[2]
         THEN [data EXCEPT ![Len(data)] = <<@[1], @[2], @[3] + acc>>]
         ELSE Append(data, <<body[1], body[2], acc>>)

NoResponse == [status |-> 0, location |-> "", expires |-> 0, offset |-> "",
               complete |-> FALSE]

\* a coroutine slot nothing runs in
NoTask == [call |-> IdleCall, trace |-> <<>>, response |-> NoResponse,
           result |-> "none"]

\* upload-expires text -> timestamp (strptime + timestamp(), process in UTC)
ParseExpires(e) == e

CreateStatuses == {200, 201}
PatchStatuses == {201, 204, 500}
DeleteStatuses == {200, 204}
AcceptChoices(n) == {0, n} \cup (IF n > PartialUnit THEN {PartialUnit} ELSE {})

----------------------------------------------------------------------------
(* Initial state: FileStore.__init__ made an empty temp file and reloaded *)

Init ==
    /\ now = 0
    /\ fs = (BigFile :> BigSize) @@ (EmptyFileName :> 0)
            @@ (SecondFile :> SecondSize)
    /\ disk = <<EmptyFile>>
    /\ disk_storage = 1
    /\ storage = reload_storage(EmptyFile)
    /\ server = [l \in Links |-> NoSession]
    /\ call = IdleCall
    /\ trace = <<>>
    /\ response = NoResponse
    /\ result = "none"
    /\ ncalls = 0
    /\ parked = NoTask

\* a call begins
Begin ==
    /\ call.pc = "idle"
    /\ ncalls < MaxCalls
    /\ ncalls' = ncalls + 1
    /\ UNCHANGED parked

\* a call ends: nothing is suspended any more
Finish(c, r) ==
    /\ call' = [c EXCEPT !.pc = "idle"]
    /\ result' = r

\* a call fails before it touched the store or the transport
Reject(c, r) ==
    /\ Finish(c, r)
    /\ trace' = <<>>
    /\ response' = NoResponse
    /\ UNCHANGED <<now, fs, disk, disk_storage, storage, server>>

\* the store after a mutation: memory and journal agree
Commit(st) ==
    /\ storage' = st
    /\ disk' = [disk EXCEPT ![disk_storage] = persist(st)]

\* the store after a reload that was followed by no write
Reloaded ==
    /\ storage' = OnDisk
    /\ UNCHANGED disk

Tick ==
    /\ now < MaxTime
    /\ now' = now + 1
    /\ UNCHANGED <<fs, disk, disk_storage, storage, server, call, trace,
                   response, result, ncalls, parked>>

----------------------------------------------------------------------------
(* create_unique_link *)

\* (bucketname, objectname, filename) argument triples a caller may pass
CreateArgs ==
    { <<" ", "obj", BigFile>>, <<NoneArg, NoneArg, BigFile>>,
      <<"bkt", NoneArg, NoneArg>>, <<"bkt", "", " ">>,
      <<"bkt", "obj", " ">>, <<"bkt", NoneArg, EmptyFileName>>,
      <<"bkt", NoneArg, BigFile>>, <<"bkt", "obj", NoneArg>>,
      <<"bkt", "obj", "">> }

\* the headers of the creation request
create_headers(bucketname, file, filename) ==
    LET h0 == (TusResumable :> "1.0.0")
        h1 == IF ~Truthy(filename)
              THEN Put(h0, UploadDeferLength, "1")
              ELSE Put(h0, UploadLength, StrOf(fs[filename]))
    IN  Put(h1, UploadMetadata, encode(bucketname, Basename(file)))

\* the FileInfo handed to mark_file after a 201
create_info(bucketname, file, filename, resp) ==
    LET upload_mode == IF ~Truthy(filename) THEN UploadDeferLength
                       ELSE UploadLength
    IN  [name |-> file,
         link |-> resp.location,
         length |-> IF Truthy(filename) THEN StrOf(fs[filename]) ELSE "",
         headers |-> Del(create_headers(bucketname, file, filename),
                         upload_mode),
         expiration_time |-> ParseExpires(resp.expires)]

\* the status test of line 102
create_ok_2xx(resp) == resp.status \in 200..299
create_ok(resp) == resp.status = 201

create_unique_link(bucketname, objectname, filename, resp) ==
    LET c == [IdleCall EXCEPT !.op = "create", !.bucketname = bucketname,
                              !.objectname = objectname,
                              !.filename = filename]
        file == IF Truthy(filename) THEN filename ELSE objectname
    IN
    /\ Begin
    /\ IF ~is_valid_arg(bucketname)
       THEN Reject(c, "InvalidArgument")
       ELSE IF ~(is_valid_arg(objectname) \/ is_valid_arg(filename))
       THEN Reject(c, "InvalidArgument")
       ELSE IF ~is_valid_arg(file)
       THEN Reject(c, "InvalidArgument")
       ELSE IF Truthy(filename) /\ IntOf(StrOf(fs[filename])) = 0
       THEN Reject(c, "InvalidArgument")
       ELSE
         /\ trace' = <<Request("POST", "upload/resumable",
                               create_headers(bucketname, file, filename),
                               NoBody)>>
         /\ response' = resp
         /\ IF ~create_ok(resp)
            THEN /\ Finish(c, "RemoteError")
                 /\ UNCHANGED <<storage, disk, server>>
            ELSE /\ Finish([c EXCEPT !.key = file], "ok")
                 /\ Commit(mark_file(storage,
                              create_info(bucketname, file, filename, resp)))
                 /\ server' = [server EXCEPT ![resp.location] = NoSession]
         /\ UNCHANGED <<now, fs, disk_storage>>

\* what a server may answer to a creation request for object obj
CreateResponses(obj) ==
    {[NoResponse EXCEPT !.status = s] : s \in CreateStatuses \ {201}}
    \cup {[NoResponse EXCEPT !.status = 201, !.location = LinkOf(obj),
                             !.expires = e] : e \in ExpiresChoices}

CreateSession ==
    \E a \in CreateArgs :
      \E r \in CreateResponses(IF Truthy(a[3]) THEN a[3] ELSE a[2]) :
        create_unique_link(a[1], a[2], a[3], r)

----------------------------------------------------------------------------
(* terminate *)

Keys == {BigFile, "obj"}

\* the status test of line 137
terminate_ok_2xx(resp) == resp.status \in 200..299
terminate_ok(resp) == resp.status = 204

terminate(file, resp) ==
    LET c == [IdleCall EXCEPT !.op = "terminate", !.key = file]
        st == OnDisk
    IN
    /\ Begin
    /\ IF file \notin DOMAIN st
       THEN /\ Finish(c, "NotFound")
            /\ Reloaded
            /\ trace' = <<>>
            /\ response' = NoResponse
            /\ UNCHANGED server
       ELSE /\ trace' = <<Request("DELETE", st[file].link, st[file].headers,
                                  NoBody)>>
            /\ response' = resp
            /\ IF ~terminate_ok(resp)
               THEN /\ Finish(c, "RemoteError")
                    /\ Reloaded
                    /\ UNCHANGED server
               ELSE /\ Finish(c, "ok")
                    /\ Commit(remove_file(st, file))
                    /\ server' = [server EXCEPT ![st[file].link] = NoSession]
    /\ UNCHANGED <<now, fs, disk_storage>>

Terminate ==
    \E k \in Keys, s \in DeleteStatuses :
        terminate(k, [NoResponse EXCEPT !.status = s])

----------------------------------------------------------------------------
(* FileStore operations as called by the engine: each reloads first *)

\* get_file_info() outcome on the journal's mapping st
get_file_info(st, filename) ==
    IF filename \in DOMAIN st THEN "ok" ELSE "NotFound"

\* update_file_headers(): outcome r, resulting mapping st, and whether
\* persist() was called
update_file_headers(st, filename, key, value, t) ==
    IF get_file_info(st, filename) # "ok"
    THEN [r |-> "NotFound", st |-> st, wrote |-> FALSE]
    ELSE IF ~is_link_expired(st[filename], t)
    THEN [r |-> "ok", st |-> set_header(st, filename, key, value),
          wrote |-> TRUE]
    ELSE [r |-> "Expired", st |-> remove_file(st, filename), wrote |-> TRUE]

\* delete_file_headers(): the same for a removal; no expiry test
delete_file_headers(st, filename, key) ==
    IF get_file_info(st, filename) # "ok"
    THEN [r |-> "NotFound", st |-> st, wrote |-> FALSE]
    ELSE [r |-> "ok", st |-> drop_header(st, filename, key),
          wrote |-> key \in DOMAIN st[filename].headers]

\* memory and journal after a store operation with outcome u
Apply(u) ==
    /\ storage' = u.st
    /\ disk' = IF u.wrote
               THEN [disk EXCEPT ![disk_storage] = persist(u.st)]
               ELSE disk

\* a client calls the store directly: FileStore.update_file_headers
StoreUpdate ==
    \E k \in Keys :
        LET u == update_file_headers(OnDisk, k, UploadOffset, "7", now)
        IN  /\ Begin
            /\ Apply(u)
            /\ Finish([IdleCall EXCEPT !.op = "update_file_headers",
                                       !.key = k], u.r)
            /\ trace' = <<>>
            /\ response' = NoResponse
            /\ UNCHANGED <<now, fs, disk_storage, server>>

\* FileStore.delete_file_headers
StoreDelete ==
    \E k \in Keys :
        LET u == delete_file_headers(OnDisk, k, UploadOffset)
        IN  /\ Begin
            /\ Apply(u)
            /\ Finish([IdleCall EXCEPT !.op = "delete_file_headers",
                                       !.key = k], u.r)
            /\ trace' = <<>>
            /\ response' = NoResponse
            /\ UNCHANGED <<now, fs, disk_storage, server>>

\* FileStore.get_file_info
StoreGet ==
    \E k \in Keys :
        /\ Begin
        /\ Reloaded
        /\ Finish([IdleCall EXCEPT !.op = "get_file_info", !.key = k],
                  get_file_info(OnDisk, k))
        /\ trace' = <<>>
        /\ response' = NoResponse
        /\ UNCHANGED <<now, fs, disk_storage, server>>

----------------------------------------------------------------------------
(* upload *)

OctetStream == "application/offset+octet-stream"

\* resumable.py:169  chunk_size = 1048576 * int(abs(mb_size))
chunk_size_of_fixed(mb_size) == MiB
chunk_size_of(mb_size) == MiB * Abs(mb_size)

\* number of chunk-transfer requests in a trace
IsChunk(q) == q.method = "PATCH" /\ q.body # NoBody
RECURSIVE NumChunks(_)
NumChunks(tr) ==
    IF tr = <<>> THEN 0
    ELSE (IF IsChunk(tr[1]) THEN 1 ELSE 0) + NumChunks(Tail(tr))

\* top of the while loop (lines 189-190): read the headers, send the offset
\* query, suspend until it is answered
LoopTop(c, st, tr) ==
    IF get_file_info(st, c.target_file) # "ok"
    THEN /\ Finish(c, "NotFound")
         /\ trace' = tr
    ELSE /\ call' = [c EXCEPT !.pc = "head_wait"]
         /\ result' = "running"
         /\ trace' = Append(tr, Request("HEAD", c.storage_link,
                                        st[c.target_file].headers, NoBody))

\* (filename, upload_defer, link, objectname) argument tuples a caller may pass
\* and mb_size values
UploadArgs ==
    { <<BigFile, FALSE, NoneArg, NoneArg>>, <<" ", FALSE, NoneArg, NoneArg>>,
      <<BigFile, TRUE, NoneArg, "obj">>, <<BigFile, TRUE, " ", "obj">>,
      <<NoneArg, TRUE, LinkOf("obj"), "obj">>,
      <<EmptyFileName, TRUE, LinkOf("obj"), "obj">> }
    \cup { <<BigFile, TRUE, l, "obj">> : l \in Links }
MbSizes == {-2, 0, 1}

\* lines 159-187: validation, Content-Type, the deferred length declaration
upload(filename, upload_defer, link, objectname, mb_size) ==
    LET target_file == IF upload_defer THEN objectname ELSE filename
        c0 == [IdleCall EXCEPT !.op = "upload", !.filename = filename,
                  !.upload_defer = upload_defer, !.link = link,
                  !.objectname = objectname, !.mb_size = mb_size,
                  !.target_file = target_file, !.key = target_file,
                  !.chunk_size = chunk_size_of(mb_size)]
        u1 == update_file_headers(OnDisk, target_file, ContentType,
                                  OctetStream, now)
    IN
    /\ Begin
    /\ IF upload_defer /\ ~(is_valid_arg(link) /\ is_valid_arg(objectname))
       THEN Reject(c0, "InvalidArgument")
       ELSE IF ~is_valid_arg(filename)
       THEN Reject(c0, "InvalidArgument")
       ELSE
         /\ response' = NoResponse
         /\ UNCHANGED <<now, fs, disk_storage>>
         /\ IF u1.r # "ok"
            THEN /\ Apply(u1)
                 /\ Finish(c0, u1.r)
                 /\ trace' = <<>>
                 /\ UNCHANGED server
            ELSE
              LET storage_link == IF upload_defer THEN link
                                  ELSE get_link(u1.st, target_file)
                  c1 == [c0 EXCEPT !.storage_link = storage_link,
                                   !.e2e = (SrvOffset(storage_link) = 0)]
                  size == StrOf(fs[filename])
                  u2 == update_file_headers(u1.st, target_file, UploadLength,
                                            size, now)
                  u3 == update_file_headers(u2.st, target_file, UploadOffset,
                                            "0", now)
              IN
              IF ~upload_defer
              THEN /\ Apply(u1)
                   /\ LoopTop(c1, u1.st, <<>>)
                   /\ UNCHANGED server
              ELSE IF IntOf(size) = 0
              THEN /\ Apply(u1)
                   /\ Finish(c1, "InvalidArgument")
                   /\ trace' = <<>>
                   /\ UNCHANGED server
              ELSE IF u2.r # "ok"
              THEN /\ Apply(u2)
                   /\ Finish(c1, u2.r)
                   /\ trace' = <<>>
                   /\ UNCHANGED server
              ELSE IF u3.r # "ok"
              THEN /\ Apply(u3)
                   /\ Finish(c1, u3.r)
                   /\ trace' = <<>>
                   /\ UNCHANGED server
              ELSE /\ Apply(u3)
                   /\ call' = [c1 EXCEPT !.pc = "declare_wait"]
                   /\ result' = "running"
                   /\ trace' = <<Request("PATCH", storage_link,
                                   u3.st[target_file].headers, NoBody)>>
                   /\ UNCHANGED server

UploadStart ==
    \E a \in UploadArgs :
      \E mb \in (IF a[1] = BigFile /\ (a[2] => a[3] \in Links) THEN MbSizes
                  ELSE {1}) :
        upload(a[1], a[2], a[3], a[4], mb)

\* lines 185-190: the declaration is answered (its status is not examined);
\* Upload-Length is dropped locally and the loop is entered
upload_declared(resp) ==
    LET u == delete_file_headers(OnDisk, call.target_file, UploadLength)
    IN
    /\ call.pc = "declare_wait"
    /\ response' = resp
    /\ Apply(u)
    /\ IF u.r # "ok"
       THEN /\ Finish(call, u.r)
            /\ UNCHANGED trace
       ELSE LoopTop(call, u.st, trace)
    /\ UNCHANGED <<now, fs, disk_storage, ncalls, server, parked>>

DeclareResponse ==
    /\ call.pc = "declare_wait"
    /\ \E s \in PatchStatuses :
        upload_declared([NoResponse EXCEPT !.status = s])

\* chunk = file.read(chunk_size) with the handle positioned at pos; a
\* negative size reads to the end of the file
read_chunk(filename, pos, chunk_size) ==
    LET rest == IF pos < fs[filename] THEN fs[filename] - pos ELSE 0
    IN  <<filename, pos, IF chunk_size < 0 THEN rest ELSE Min(chunk_size, rest)>>

\* the Upload-Offset value stored before the chunk request, and the position
\* the file is opened at, for a server-reported offset
offset_header_cached(offset) ==
    LET h == OnDisk[call.target_file].headers
    IN  IF UploadOffset \in DOMAIN h THEN h[UploadOffset] ELSE offset
offset_header(offset) == offset
open_position_start(offset) == 0
open_position(offset) == IntOf(offset)

\* lines 190-198: the offset query is answered; open the file there, store
\* the offset, read a chunk and send it
upload_offset(resp) ==
    LET offset == resp.offset
        c == [call EXCEPT !.open_files = @ + 1]
        u == update_file_headers(OnDisk, call.target_file, UploadOffset,
                                 offset_header(offset), now)
        chunk == read_chunk(call.filename, open_position(offset),
                            call.chunk_size)
    IN
    /\ call.pc = "head_wait"
    /\ response' = resp
    /\ Apply(u)
    /\ IF u.r # "ok"
       THEN /\ Finish(c, u.r)
            /\ UNCHANGED trace
       ELSE /\ call' = [c EXCEPT !.pc = "patch_wait"]
            /\ result' = "running"
            /\ trace' = Append(trace, Request("PATCH", call.storage_link,
                                  u.st[call.target_file].headers, chunk))
    /\ UNCHANGED <<now, fs, disk_storage, ncalls, server, parked>>

\* resumable_offset(): the server answers with the offset it holds
HeadResponse ==
    /\ call.pc = "head_wait"
    /\ upload_offset([NoResponse EXCEPT !.status = 200,
                      !.offset = StrOf(SrvOffset(call.storage_link))])

\* an ideal answer to a chunk: everything kept, success, and the completion
\* marker exactly when the whole file has arrived
IdealAnswer(link, body, resp, acc) ==
    /\ acc = body[3]
    /\ resp.status \in {201, 204}
    /\ resp.complete = (SrvOffset(link) + acc = fs[body[1]])

\* the status test of line 199 and the completion test of line 202
chunk_failed_only204(resp) == resp.status # 204
chunk_failed_never(resp) == FALSE
chunk_failed(resp) == resp.status \notin {201, 204}
chunk_completes(resp) == resp.complete

\* lines 199-205 and back to 189-190: the chunk is answered
upload_chunk_done(resp, acc) ==
    LET body == trace[Len(trace)].body
        link == call.storage_link
        c == [call EXCEPT !.e2e = @ /\ IdealAnswer(link, body, resp, acc)]
    IN
    /\ call.pc = "patch_wait"
    /\ response' = resp
    /\ server' = [server EXCEPT ![link] = AppendData(@, body, acc)]
    /\ IF chunk_failed(resp)
       THEN /\ Finish(c, "RemoteError")
            /\ UNCHANGED <<storage, disk, trace>>
       ELSE IF chunk_completes(resp)
       THEN IF call.target_file \in DOMAIN storage
            THEN /\ Finish([c EXCEPT !.open_files = @ - 1], "ok")
                 /\ Commit(remove_file(storage, call.target_file))
                 /\ UNCHANGED trace
            ELSE /\ Finish([c EXCEPT !.open_files = @ - 1], "NotFound")
                 /\ UNCHANGED <<storage, disk, trace>>
       ELSE /\ NumChunks(trace) < MaxIter
            /\ Reloaded
            /\ LoopTop(c, OnDisk, trace)
    /\ UNCHANGED <<now, fs, disk_storage, ncalls, parked>>

PatchResponse ==
    /\ call.pc = "patch_wait"
    /\ \E s \in PatchStatuses, acc \in AcceptChoices(trace[Len(trace)].body[3]) :
         \E m \in (IF s \in {201, 204} THEN BOOLEAN ELSE {FALSE}) :
           upload_chunk_done([NoResponse EXCEPT !.status = s, !.complete = m],
                             acc)

----------------------------------------------------------------------------
Next ==
    \/ Tick
    \/ CreateSession
    \/ Terminate
    \/ StoreUpdate
    \/ StoreDelete
    \/ StoreGet
    \/ UploadStart
    \/ DeclareResponse
    \/ HeadResponse
    \/ PatchResponse

Spec == Init /\ [][Next]_vars

----------------------------------------------------------------------------
(* Process restart: the engine and its FileStore are constructed anew.     *)
(* FileStore.__init__ makes a new NamedTemporaryFile (a new, empty file    *)
(* with a new name; the old one stays on disk, delete=False) and reloads.  *)

new_store(d) ==
    [disk |-> Append(d, EmptyFile), disk_storage |-> Len(d) + 1,
     storage |-> reload_storage(EmptyFile)]

Restart ==
    /\ call.pc \in {"idle", "dead"}
    /\ Len(disk) <= MaxRestarts
    /\ disk' = new_store(disk).disk
    /\ disk_storage' = new_store(disk).disk_storage
    /\ storage' = new_store(disk).storage
    /\ call' = [IdleCall EXCEPT !.op = "restart"]
    /\ trace' = <<>>
    /\ response' = NoResponse
    /\ result' = "none"
    /\ UNCHANGED <<now, fs, server, ncalls, parked>>

NextRestart ==
    \/ Next
    \/ Restart

SpecRestart == Init /\ [][NextRestart]_vars

----------------------------------------------------------------------------
(* The journal file itself: it is an ordinary file of the temp directory,  *)
(* so its name can be removed from outside, and a persist() can be cut     *)
(* short after it truncated the file.                                      *)

\* FileStore.reload_storage called directly; self.storage = {} comes first
StoreReload ==
    /\ Begin
    /\ storage' = IF reload_result(Journal) = "ok"
                  THEN reload_storage(Journal) ELSE EmptyMap
    /\ Finish([IdleCall EXCEPT !.op = "reload_storage"],
              reload_result(Journal))
    /\ trace' = <<>>
    /\ response' = NoResponse
    /\ UNCHANGED <<now, fs, disk, disk_storage, server>>

\* the environment removes the journal's name (a temp-directory cleaner)
JournalLost ==
    /\ Journal.present
    /\ disk' = [disk EXCEPT ![disk_storage] = NoFile]
    /\ UNCHANGED <<now, fs, disk_storage, storage, server, call, trace,
                   response, result, ncalls, parked>>

\* create_unique_link answered 201 whose mark_file -> persist() is cut short:
\* by an error raised inside it (the process goes on, the call fails) or by
\* the death of the process
CreateInterrupted ==
    \E a \in {<<"bkt", "obj", NoneArg>>, <<"bkt", NoneArg, BigFile>>},
       e \in ExpiresChoices, died \in BOOLEAN :
        LET file == IF Truthy(a[3]) THEN a[3] ELSE a[2]
            resp == [NoResponse EXCEPT !.status = 201,
                         !.location = LinkOf(file), !.expires = e]
            st == mark_file(storage, create_info(a[1], file, a[3], resp))
            c == [IdleCall EXCEPT !.op = "create", !.bucketname = a[1],
                      !.objectname = a[2], !.filename = a[3], !.key = file]
        IN  /\ Begin
            /\ trace' = <<Request("POST", "upload/resumable",
                                  create_headers(a[1], file, a[3]), NoBody)>>
            /\ response' = resp
            /\ storage' = st
            /\ \E f \in Interrupted(persist(st)) :
                   disk' = [disk EXCEPT ![disk_storage] = f]
            /\ call' = [c EXCEPT !.pc = IF died THEN "dead" ELSE "idle"]
            /\ result' = IF died THEN "killed" ELSE "OSError"
            /\ server' = [server EXCEPT ![resp.location] = NoSession]
            /\ UNCHANGED <<now, fs, disk_storage>>

JournalNext ==
    \/ CreateSession
    \/ CreateInterrupted
    \/ JournalLost
    \/ StoreReload
    \/ Restart

SpecJournal == Init /\ [][JournalNext]_vars

----------------------------------------------------------------------------
(* Two uploads on one engine and one FileStore, as two coroutines of one   *)
(* event loop.  A coroutine runs without interruption from one await to    *)
(* the next (lines 185, 190, 196); at an await the loop may resume the     *)
(* other one.  call, trace, response and result belong to the coroutine    *)
(* that is scheduled; parked holds the other.                              *)

\* both sessions exist: create_unique_link was answered 201 for the file
\* a.bin and, without a filename, for the object "obj"
ConcInit ==
    \E e1 \in ExpiresChoices, e2 \in ExpiresChoices :
        LET r1 == [NoResponse EXCEPT !.status = 201,
                       !.location = LinkOf(BigFile), !.expires = e1]
            r2 == [NoResponse EXCEPT !.status = 201,
                       !.location = LinkOf("obj"), !.expires = e2]
        IN  /\ now = 0
            /\ fs = (BigFile :> BigSize) @@ (EmptyFileName :> 0)
                    @@ (SecondFile :> SecondSize)
            /\ storage = mark_file(
                   mark_file(EmptyMap,
                             create_info("bkt", BigFile, BigFile, r1)),
                   create_info("bkt", "obj", NoneArg, r2))
            /\ disk = <<persist(storage)>>
            /\ disk_storage = 1
            /\ server = [l \in Links |-> NoSession]
            /\ call = IdleCall
            /\ trace = <<>>
            /\ response = NoResponse
            /\ result = "none"
            /\ ncalls = 0
            /\ parked = NoTask

\* the event loop suspends the scheduled coroutine and resumes the other
Switch ==
    /\ call.pc # "idle" \/ parked.call.pc # "idle"
    /\ parked' = [call |-> call, trace |-> trace, response |-> response,
                  result |-> result]
    /\ call' = parked.call
    /\ trace' = parked.trace
    /\ response' = parked.response
    /\ result' = parked.result
    /\ UNCHANGED <<now, fs, disk, disk_storage, storage, server, ncalls>>

\* the two uploads: a.bin in length-declared mode, b.bin in deferred mode
\* for the object "obj"
ConcArgs ==
    { <<BigFile, FALSE, NoneArg, NoneArg>>,
      <<SecondFile, TRUE, LinkOf("obj"), "obj">> }

\* asyncio.gather(upload(...), upload(...)): one upload per argument tuple
\* starts, the second while the other coroutine works on a different key
ConcUploadStart ==
    \E a \in ConcArgs :
        /\ ncalls < Cardinality(ConcArgs)
        /\ parked.call.key # (IF a[2] THEN a[4] ELSE a[1])
        /\ upload(a[1], a[2], a[3], a[4], 1)

ConcNext ==
    \/ Tick
    \/ Switch
    \/ ConcUploadStart
    \/ DeclareResponse
    \/ HeadResponse
    \/ PatchResponse

SpecConcurrent == ConcInit /\ [][ConcNext]_vars

----------------------------------------------------------------------------
(* Claims *)

\* C1: a session recorded by mark_file survives a process restart: right
\* after a restart, get_file_info on the new store returns, for every name
\* the previous store had persisted, the same session (link, headers,
\* expiration_time).
C1_SessionSurvivesRestart ==
    (call.op = "restart" /\ disk_storage > 1) =>
        LET old == reload_storage(disk[disk_storage - 1])
        IN  \A n \in DOMAIN old :
                /\ get_file_info(OnDisk, n) = "ok"
                /\ OnDisk[n] = old[n]


Last(tr) == tr[Len(tr)]
Expired(key) == key \in DOMAIN storage /\ storage[key].expiration_time < now

\* C2: whenever a chunk-transfer request is outstanding it was preceded by
\* an offset query, and its Upload-Offset header and the file position its
\* body starts at both equal the offset that query returned; every earlier
\* chunk request of the call also follows a query and carries the position
\* its body was read from.
C2_ChunkUsesQueriedOffset ==
    /\ call.pc = "patch_wait" =>
        LET n == Len(trace)
        IN  /\ n >= 2
            /\ IsChunk(trace[n])
            /\ trace[n - 1].method = "HEAD"
            /\ trace[n].headers[UploadOffset] = response.offset
            /\ trace[n].body[2] = IntOf(response.offset)
            /\ IntOf(response.offset) = SrvOffset(call.storage_link)
    /\ \A i \in 1..Len(trace) :
        IsChunk(trace[i]) =>
            /\ i > 1
            /\ trace[i - 1].method = "HEAD"
            /\ trace[i].headers[UploadOffset] = StrOf(trace[i].body[2])

\* C2 witness: the first chunk request of an upload invoked again after an
\* aborted one, where the locally stored Upload-Offset differed from the
\* offset the server returned.
C2_Witness ==
    /\ call.op = "upload"
    /\ call.pc = "patch_wait"
    /\ NumChunks(trace) = 1
    /\ UploadOffset \in DOMAIN trace[Len(trace) - 1].headers
    /\ trace[Len(trace) - 1].headers[UploadOffset] # response.offset
    /\ response.offset # "0"

\* a chunk response has just been received
ChunkAnswered == call.pc = "patch_wait" /\ call'.pc # "patch_wait"
\* the answer to an offset query of a later iteration has just been received
LaterQueryAnswered ==
    call.pc = "head_wait" /\ call'.pc # "head_wait" /\ NumChunks(trace) >= 1

\* C3 (as stated): a success answer with tus-complete ends the loop, upload
\* returns normally and the session is removed; a success answer without it
\* leaves the session stored and is followed by another offset query and
\* another chunk request.
C3_AsStated ==
    [][ /\ (ChunkAnswered /\ response'.status \in {201, 204}) =>
            IF response'.complete
            THEN /\ call'.pc = "idle"
                 /\ result' = "ok"
                 /\ call.target_file \notin DOMAIN storage'
                 /\ trace' = trace
            ELSE /\ call.target_file \in DOMAIN storage'
                 /\ storage' = storage
                 /\ call'.pc = "head_wait"
                 /\ Len(trace') = Len(trace) + 1
                 /\ Last(trace').method = "HEAD"
        /\ LaterQueryAnswered =>
            /\ call'.pc = "patch_wait"
            /\ IsChunk(Last(trace'))
      ]_vars

\* C3 (amended): the same, except that the chunk request follows the new
\* offset query only if the session has not expired when the query is
\* answered; if it has, upload fails with Expired there, the session is
\* evicted and no chunk request is sent.
C3_LoopContinuesUntilComplete ==
    [][ /\ (ChunkAnswered /\ response'.status \in {201, 204}) =>
            IF response'.complete
            THEN /\ call'.pc = "idle"
                 /\ result' = "ok"
                 /\ call.target_file \notin DOMAIN storage'
                 /\ get_file_info(reload_storage(disk'[disk_storage]),
                                  call.target_file) = "NotFound"
                 /\ trace' = trace
            ELSE /\ call.target_file \in DOMAIN storage'
                 /\ storage' = storage
                 /\ call'.pc = "head_wait"
                 /\ Len(trace') = Len(trace) + 1
                 /\ Last(trace').method = "HEAD"
        /\ LaterQueryAnswered =>
            IF Expired(call.target_file)
            THEN /\ call'.pc = "idle"
                 /\ result' = "Expired"
                 /\ call.target_file \notin DOMAIN storage'
                 /\ trace' = trace
            ELSE /\ call'.pc = "patch_wait"
                 /\ Len(trace') = Len(trace) + 1
                 /\ IsChunk(Last(trace'))
      ]_vars

\* C3 witness: an upload that went round the loop after a success answer
\* without the marker and then returned on a success answer carrying it.
C3_Witness ==
    /\ call.op = "upload"
    /\ call.pc = "idle"
    /\ result = "ok"
    /\ NumChunks(trace) >= 2
    /\ response.status \in {201, 204}
    /\ response.complete
    /\ call.target_file \notin DOMAIN storage

\* C4: a chunk answer whose status is neither 201 nor 204 ends upload with
\* RemoteError at once: no further request is sent, and the session of the
\* target key stays in the store, on disk too, unchanged (its link included).
C4_ChunkFailureAborts ==
    [][ (ChunkAnswered /\ response'.status \notin {201, 204}) =>
            /\ call'.pc = "idle"
            /\ result' = "RemoteError"
            /\ trace' = trace
            /\ call.target_file \in DOMAIN storage'
            /\ storage' = storage
            /\ reload_storage(disk'[disk_storage]) = storage
            /\ get_link(storage', call.target_file) =
                   get_link(storage, call.target_file)
      ]_vars

\* C4 witness: upload failed with RemoteError on a 500 chunk answer and the
\* session is still stored.
C4_Witness ==
    /\ call.op = "upload"
    /\ call.pc = "idle"
    /\ result = "RemoteError"
    /\ response.status = 500
    /\ call.target_file \in DOMAIN storage
    /\ IsChunk(Last(trace))


CeilDiv(a, b) == (a + b - 1) \div b

\* an upload in length-declared mode, with a positive chunk size, that found
\* the server holding nothing for the session and has so far been answered
\* ideally (every body appended whole, the completion marker exactly in the
\* answer that brings the server's offset to the file size)
EndToEnd ==
    /\ call.op = "upload"
    /\ ~call.upload_defer
    /\ call.mb_size # 0
    /\ call.e2e

\* the i-th request of the expected sequence: query, chunk, query, chunk ...
\* with chunk k (from 0) carrying Upload-Offset k*C and bytes [k*C, k*C + C)
ExpectedAt(i, q, S, C) ==
    LET k == (i - 1) \div 2
    IN  IF i % 2 = 1
        THEN /\ q.method = "HEAD"
             /\ q.url = call.storage_link
        ELSE /\ IsChunk(q)
             /\ q.url = call.storage_link
             /\ q.headers[UploadOffset] = StrOf(k * C)
             /\ q.body = <<call.filename, k * C, Min(C, S - k * C)>>

IsDeclaration(q) == q.method = "PATCH" /\ q.body = NoBody

\* C6: a creation request made without a filename carries
\* Upload-Defer-Length = "1"; a deferred upload's first request is the one
\* body-less declaration to the given link with Upload-Length = file size
\* and Upload-Offset = "0", every offset query comes after it and is made
\* with stored headers that no longer hold Upload-Length, and no chunk
\* request carries Upload-Length.
C6_DeferredEndToEnd ==
    /\ (call.op = "create" /\ trace # <<>> /\ ~Truthy(call.filename)) =>
            /\ UploadDeferLength \in DOMAIN trace[1].headers
            /\ trace[1].headers[UploadDeferLength] = "1"
            /\ UploadLength \notin DOMAIN trace[1].headers
    /\ (call.op = "upload" /\ call.upload_defer /\ trace # <<>>) =>
            /\ IsDeclaration(trace[1])
            /\ trace[1].url = call.link
            /\ trace[1].headers[UploadLength] = StrOf(fs[call.filename])
            /\ trace[1].headers[UploadOffset] = "0"
            /\ \A i \in 2..Len(trace) :
                /\ ~IsDeclaration(trace[i])
                /\ UploadLength \notin DOMAIN trace[i].headers
            /\ call.pc = "head_wait" =>
                UploadLength \notin DOMAIN OnDisk[call.objectname].headers

\* C6 witness: a deferred upload that declared the length, went through at
\* least one query and chunk, and completed.
C6_Witness ==
    /\ call.op = "upload"
    /\ call.upload_defer
    /\ call.pc = "idle"
    /\ result = "ok"
    /\ IsDeclaration(trace[1])
    /\ NumChunks(trace) >= 1

\* a call of the named operation has just been made
Called(op) == ncalls' = ncalls + 1 /\ call'.op = op
StoredAfter == reload_storage(disk'[disk_storage'])

\* C7: create_unique_link that got as far as the creation request stores a
\* session iff the answer's status is 201: then the entry under the file key
\* has the answer's location as link and neither Upload-Length nor
\* Upload-Defer-Length in its headers, get_link returns that link, and the
\* other entries are untouched; on any other status the call fails with
\* RemoteError and memory and journal are unchanged.
C7_CreateStoresOn201Only ==
    [][ (Called("create") /\ trace' # <<>>) =>
            LET key == IF Truthy(call'.filename) THEN call'.filename
                       ELSE call'.objectname
            IN  IF response'.status = 201
                THEN /\ result' = "ok"
                     /\ key \in DOMAIN storage'
                     /\ storage'[key].link = response'.location
                     /\ UploadLength \notin DOMAIN storage'[key].headers
                     /\ UploadDeferLength \notin DOMAIN storage'[key].headers
                     /\ get_link(storage', key) = response'.location
                     /\ StoredAfter = storage'
                     /\ \A k \in DOMAIN storage \ {key} :
                            k \in DOMAIN storage' /\ storage'[k] = storage[k]
                ELSE /\ result' = "RemoteError"
                     /\ storage' = storage
                     /\ disk' = disk
      ]_vars

\* C7 witness: a creation answered 201 whose session is now stored.
C7_Witness ==
    /\ call.op = "create"
    /\ result = "ok"
    /\ response.status = 201
    /\ call.key \in DOMAIN storage
    /\ storage[call.key].link = response.location

\* C8: create_unique_link with a blank bucket name, or with objectname and
\* filename both missing or blank, or with a filename naming a zero-byte
\* file, fails with InvalidArgument, sends nothing and leaves the store as
\* it was.
C8_CreateRejectsBadArguments ==
    [][ ( /\ Called("create")
          /\ \/ call'.bucketname = NoneArg
             \/ call'.bucketname \in Blank
             \/ /\ call'.objectname \in Blank \cup {NoneArg}
                /\ call'.filename \in Blank \cup {NoneArg}
             \/ /\ call'.filename \in DOMAIN fs
                /\ fs[call'.filename] = 0 ) =>
            /\ result' = "InvalidArgument"
            /\ trace' = <<>>
            /\ storage' = storage
            /\ disk' = disk
            /\ server' = server
      ]_vars

\* C8 witness: creation for the zero-byte file, bucket name valid, rejected.
C8_Witness ==
    /\ call.op = "create"
    /\ call.bucketname = "bkt"
    /\ call.filename = EmptyFileName
    /\ fs[EmptyFileName] = 0
    /\ result = "InvalidArgument"
    /\ trace = <<>>

\* the store after a successful update_file_headers(k, key, value) on st
HeaderSet(st, k, key, value) ==
    [n \in DOMAIN st |->
        IF n = k
        THEN [f \in DOMAIN st[n] |->
                IF f = "headers"
                THEN [h \in DOMAIN st[n].headers \cup {key} |->
                        IF h = key THEN value ELSE st[n].headers[h]]
                ELSE st[n][f]]
        ELSE st[n]]

\* what update_file_headers(k, Upload-Offset, "7") on a stored session does,
\* given whether the session counts as expired
UpdateOutcome(k, expired) ==
    IF expired
    THEN /\ result' = "Expired"
         /\ k \notin DOMAIN storage'
         /\ get_file_info(StoredAfter, k) = "NotFound"
         /\ \A n \in DOMAIN storage \ {k} :
                n \in DOMAIN storage' /\ storage'[n] = storage[n]
         /\ StoredAfter = storage'
    ELSE /\ result' = "ok"
         /\ storage' = HeaderSet(storage, k, UploadOffset, "7")
         /\ StoredAfter = storage'

\* C9 (as stated): update_file_headers on a stored session fails with
\* Expired and removes the session exactly when now >= expiration_time;
\* otherwise it sets the header, persists, and changes nothing else.
C9_AsStated ==
    [][ (Called("update_file_headers") /\ call'.key \in DOMAIN storage) =>
            UpdateOutcome(call'.key,
                          now >= storage[call'.key].expiration_time)
      ]_vars

\* C9 (amended): the same with the strict comparison: Expired and removal
\* exactly when now > expiration_time; at now = expiration_time the header
\* is set.
C9_UpdateHeaderExpiry ==
    [][ (Called("update_file_headers") /\ call'.key \in DOMAIN storage) =>
            UpdateOutcome(call'.key,
                          now > storage[call'.key].expiration_time)
      ]_vars

\* C9 witness: the header was set at the very instant of expiry.
C9_Witness ==
    /\ call.op = "update_file_headers"
    /\ result = "ok"
    /\ call.key \in DOMAIN storage
    /\ storage[call.key].expiration_time = now
    /\ storage[call.key].headers[UploadOffset] = "7"
    /\ Cardinality(DOMAIN storage) = 2

\* C10: terminate on a stored session sends one delete request to the
\* session's link with its headers; on status 204 the session is removed
\* (the others stay) and the call succeeds; on any other status the call
\* fails with RemoteError and the store is unchanged, in memory and on disk.
C10_TerminateOn204Only ==
    [][ (Called("terminate") /\ call'.key \in DOMAIN storage) =>
            LET k == call'.key
            IN  /\ trace' = <<Request("DELETE", storage[k].link,
                                      storage[k].headers, NoBody)>>
                /\ IF response'.status = 204
                   THEN /\ result' = "ok"
                        /\ DOMAIN storage' = DOMAIN storage \ {k}
                        /\ \A n \in DOMAIN storage' : storage'[n] = storage[n]
                        /\ StoredAfter = storage'
                   ELSE /\ result' = "RemoteError"
                        /\ storage' = storage
                        /\ StoredAfter = storage
      ]_vars

\* C10 witness: a terminate answered 204 removed its session and left the
\* other one.
C10_Witness ==
    /\ call.op = "terminate"
    /\ result = "ok"
    /\ response.status = 204
    /\ Len(trace) = 1
    /\ trace[1].method = "DELETE"
    /\ call.key \notin DOMAIN storage
    /\ storage # EmptyMap

\* a stored session is gone after the step
Leaves(k) == k \in DOMAIN storage /\ k \notin DOMAIN storage'

\* the three steps that may remove session k: a chunk answer with the
\* completion marker, a terminate answered 204, a header update that found
\* the session expired
CompletedBy(k) ==
    /\ call.pc = "patch_wait"
    /\ call.target_file = k
    /\ response'.status \in {201, 204}
    /\ response'.complete
TerminatedBy(k) ==
    /\ Called("terminate")
    /\ call'.key = k
    /\ response'.status = 204
EvictedBy(k) ==
    /\ call'.op \in {"upload", "update_file_headers"}
    /\ call'.key = k
    /\ result' = "Expired"
    /\ storage[k].expiration_time < now

\* C11: a session leaves the store only in a step that is an upload's chunk
\* answer carrying the completion marker, a terminate answered 204, or a
\* header update that found it expired; the only keys a step adds is the key
\* of a creation answered 201; every other step, failing ones included,
\* leaves the key set as it was; the journal holds the same key set.
C11_SessionLeavesOnlyExplicitly ==
    [][ /\ \A k \in DOMAIN storage :
            Leaves(k) => (CompletedBy(k) \/ TerminatedBy(k) \/ EvictedBy(k))
        /\ \A k \in DOMAIN storage' \ DOMAIN storage :
            /\ Called("create")
            /\ response'.status = 201
            /\ call'.key = k
        /\ DOMAIN StoredAfter = DOMAIN storage'
      ]_vars

\* C11 witness: an upload's header update evicted its expired session while
\* another session stayed stored.
C11_Witness ==
    /\ call.op = "upload"
    /\ result = "Expired"
    /\ call.key \notin DOMAIN storage
    /\ storage # EmptyMap
    /\ trace # <<>>

\* the scheduled coroutine has just run a piece of its upload
UploadRan == call'.op = "upload" /\ parked' = parked /\ call' # call

\* a coroutine's upload that found the server holding nothing and was
\* answered ideally has ended normally with the whole file at the server,
\* or with Expired
EndedWell(t) ==
    (t.call.op = "upload" /\ t.call.pc = "idle" /\ t.call.e2e) =>
        \/ t.result = "Expired"
        \/ /\ t.result = "ok"
           /\ server'[t.call.storage_link] =
                  <<<<t.call.filename, 0, fs[t.call.filename]>>>>

\* C12: two uploads with distinct session keys interleaved at their awaits
\* do not interfere: a step of one leaves every other session's entry
\* (headers included) as it was, in memory and in the journal; a chunk
\* request goes to the coroutine's own link with its own session's stored
\* headers, the offset its own query returned, and bytes of its own file
\* from that offset; a completion removes exactly the coroutine's own key;
\* and against an ideal server each upload ends normally (or with Expired).
C12_ConcurrentUploadsIndependent ==
    [][ /\ \A k \in DOMAIN storage :
            k # call'.key => k \in DOMAIN storage' /\ storage'[k] = storage[k]
        /\ StoredAfter = storage'
        /\ (UploadRan /\ call'.pc = "patch_wait") =>
            LET q == Last(trace')
                own == storage'[call'.key]
            IN  /\ IsChunk(q)
                /\ q.url = own.link
                /\ q.headers = own.headers
                /\ q.headers[UploadOffset] = response'.offset
                /\ response'.offset = StrOf(SrvOffset(own.link))
                /\ q.body[1] = call'.filename
                /\ q.body[2] = SrvOffset(own.link)
        /\ (UploadRan /\ call.pc = "patch_wait" /\ result' = "ok") =>
            /\ call.key \in DOMAIN storage
            /\ DOMAIN storage' = DOMAIN storage \ {call.key}
        /\ EndedWell([call |-> call', result |-> result'])
        /\ EndedWell([call |-> parked'.call, result |-> parked'.result])
      ]_vars

\* C12 witness: both uploads, started once each and interleaved, returned
\* normally and the store is empty.
C12_Witness ==
    /\ ncalls = 2
    /\ call.op = "upload"
    /\ parked.call.op = "upload"
    /\ call.key # parked.call.key
    /\ result = "ok"
    /\ parked.result = "ok"
    /\ NumChunks(trace) >= 2
    /\ NumChunks(parked.trace) >= 2
    /\ storage = EmptyMap

\* C13: reload_storage never fails: with the journal missing or empty it
\* leaves the empty mapping, otherwise the mapping the journal holds (the
\* journal here is missing or holds a whole document).
C13_ReloadNeverFails ==
    [][ (Called("reload_storage") /\ Journal.whole) =>
            /\ result' = "ok"
            /\ storage' = IF ~Journal.present \/ Journal.size = 0
                          THEN EmptyMap ELSE JsonLoad(Journal)
      ]_vars

\* C14: whatever an interrupted persist() left in the journal, the next
\* reload_storage succeeds and yields the empty mapping or the mapping that
\* was being written, never a parse failure.
C14_InterruptedPersistReloads ==
    [][ (Called("reload_storage") /\ Journal.present) =>
            /\ result' = "ok"
            /\ storage' \in {EmptyMap, Journal.doc}
      ]_vars

\* headers h carry the protocol version marker
HasVersion(h) == TusResumable \in DOMAIN h /\ h[TusResumable] = "1.0.0"

\* C15: in every reachable state the headers of every stored session, in
\* memory and in the journal, contain Tus-Resumable = "1.0.0", and so does
\* every request the engine has sent.
C15_VersionMarkerKept ==
    /\ \A k \in DOMAIN storage : HasVersion(storage[k].headers)
    /\ \A k \in DOMAIN OnDisk : HasVersion(OnDisk[k].headers)
    /\ \A i \in 1..Len(trace) : HasVersion(trace[i].headers)

\* C15 witness: a deferred upload set and removed headers of its session,
\* sent requests for it and was aborted; the session is still stored.
C15_Witness ==
    /\ call.op = "upload"
    /\ call.upload_defer
    /\ result = "RemoteError"
    /\ NumChunks(trace) >= 2
    /\ call.key \in DOMAIN storage
    /\ UploadLength \notin DOMAIN storage[call.key].headers
    /\ storage[call.key].headers[ContentType] = OctetStream
    /\ HasVersion(storage[call.key].headers)

Max(a, b) == IF a > b THEN a ELSE b

\* C16: an upload that has sent a chunk request works with
\* chunk_size = 1048576 * max(1, |mb_size|), hence at least 1 MiB, and every
\* chunk it read at an offset below the file size is non-empty.
C16_ChunkSizeAtLeastOneMiB ==
    (call.op = "upload" /\ NumChunks(trace) >= 1) =>
        /\ call.chunk_size = MiB * Max(1, Abs(call.mb_size))
        /\ call.chunk_size >= MiB
        /\ \A i \in 1..Len(trace) :
            (IsChunk(trace[i]) /\ trace[i].body[2] < fs[trace[i].body[1]]) =>
                trace[i].body[3] > 0

\* C17: when the chunk read at the reported offset had zero bytes (with a
\* positive chunk size: the offset is the end of the file) and its request
\* is answered with a success status but no tus-complete, upload stops
\* there: the call ends and sends no further offset query.
C17_ZeroReadStops ==
    [][ ( /\ ChunkAnswered
          /\ call.chunk_size > 0
          /\ Last(trace).body[3] = 0
          /\ response'.status \in {201, 204}
          /\ ~response'.complete ) =>
            /\ call'.pc = "idle"
            /\ trace' = trace
      ]_vars

\* the step is upload's entry with arguments that pass lines 159-166, for a
\* stored session: it sets Content-Type (and, deferred, Upload-Length and
\* Upload-Offset)
StartUpdates ==
    /\ Called("upload")
    /\ is_valid_arg(call'.filename)
    /\ call'.upload_defer =>
           (is_valid_arg(call'.link) /\ is_valid_arg(call'.objectname))
    /\ call'.key \in DOMAIN storage
\* the step is the answer to an offset query: it sets Upload-Offset
QueryUpdates == call.pc = "head_wait" /\ call'.pc # "head_wait"
\* the step is the answer to the length declaration: it removes Upload-Length
DeclareRemoves == call.pc = "declare_wait" /\ call'.pc # "declare_wait"
\* the step sent a chunk-transfer or length-declaration request
PatchSent ==
    /\ call'.op = "upload"
    /\ trace' # trace
    /\ trace' # <<>>
    /\ Last(trace').method = "PATCH"

\* the header mutation of the step failed with Expired and evicted session k
FailsExpired(k) ==
    /\ result' = "Expired"
    /\ call'.pc = "idle"
    /\ k \notin DOMAIN storage'
    /\ k \notin DOMAIN StoredAfter
    /\ ~PatchSent

\* C18 (as stated): upload sends no chunk-transfer and no length-declaration
\* request for a session at a time at or after its expiration_time; every
\* header mutation of upload at or after it, the removal of Upload-Length
\* included, fails with Expired and evicts the session.
C18_AsStated ==
    [][ /\ PatchSent => now < storage[call'.key].expiration_time
        /\ \A k \in DOMAIN storage :
            ( /\ k = call'.key
              /\ StartUpdates \/ QueryUpdates \/ DeclareRemoves
              /\ now >= storage[k].expiration_time ) => FailsExpired(k)
      ]_vars

\* C18 (amended): upload sends no chunk-transfer and no length-declaration
\* request at a time after the session's expiration_time (at the instant of
\* expiry it still does); a header update of upload fails with Expired and
\* evicts the session exactly when now > expiration_time; the removal of
\* Upload-Length is not checked: past expiry it succeeds, the session
\* stays, and an offset query follows.
C18_NoProgressPastExpiry ==
    [][ /\ PatchSent => now <= storage[call'.key].expiration_time
        /\ \A k \in DOMAIN storage :
            /\ (k = call'.key /\ (StartUpdates \/ QueryUpdates)) =>
                IF now > storage[k].expiration_time
                THEN FailsExpired(k)
                ELSE result' # "Expired" /\ k \in DOMAIN storage'
            /\ (k = call'.key /\ DeclareRemoves) =>
                /\ result' = "running"
                /\ k \in DOMAIN storage'
                /\ UploadLength \notin DOMAIN storage'[k].headers
                /\ call'.pc = "head_wait"
                /\ Last(trace').method = "HEAD"
      ]_vars

\* C18 witness: the length declaration was answered past expiry, the header
\* was removed without complaint and the offset query is out; next to it,
\* nothing of the file has reached the server.
C18_Witness ==
    /\ call.op = "upload"
    /\ call.upload_defer
    /\ call.pc = "head_wait"
    /\ Expired(call.key)
    /\ Len(trace) = 2
    /\ IsDeclaration(trace[1])
    /\ UploadLength \notin DOMAIN storage[call.key].headers
    /\ SrvOffset(call.storage_link) = 0

\* what the server holds for link l is the first bytes of one local file:
\* nothing, or a single range that starts at 0 and ends within the file
PrefixHeld(l) ==
    \/ server[l] = NoSession
    \/ /\ Len(server[l]) = 1
       /\ server[l][1][2] = 0
       /\ server[l][1][3] <= fs[server[l][1][1]]

\* the last call was an upload that returned normally
UploadReturned == call.op = "upload" /\ call.pc = "idle" /\ result = "ok"

\* C19 (as stated): the server appends what it accepts of each chunk body;
\* in every reachable state the bytes it holds for a session are a prefix
\* of the local file, and when upload returns normally they are the whole
\* file.
C19_AsStated ==
    /\ \A l \in Links : PrefixHeld(l)
    /\ UploadReturned =>
           server[call.storage_link] =
               <<<<call.filename, 0, fs[call.filename]>>>>

\* C19 (amended): in every reachable state the bytes the server holds for a
\* session are a prefix of the local file; upload returns normally exactly
\* on a success answer that carries the completion marker, whatever the
\* server holds by then, so they are the whole file when the server sends
\* the marker only in the answer that completes the file.
C19_ServerHoldsPrefix ==
    /\ \A l \in Links : PrefixHeld(l)
    /\ UploadReturned =>
        /\ response.complete
        /\ response.status \in {201, 204}
        /\ IsChunk(Last(trace))
        /\ SrvOffset(call.storage_link) <= fs[call.filename]
    /\ (UploadReturned /\ call.e2e) =>
           server[call.storage_link] =
               <<<<call.filename, 0, fs[call.filename]>>>>

\* C19 witness: an upload invoked again after an aborted one resumed in the
\* middle of the file and returned with the whole file at the server.
C19_Witness ==
    /\ UploadReturned
    /\ ~call.upload_defer
    /\ ~call.e2e
    /\ NumChunks(trace) >= 2
    /\ trace[2].body[2] > 0
    /\ server[call.storage_link] = <<<<call.filename, 0, fs[call.filename]>>>>

\* C20: upload has at most one handle on the local file open (opened by
\* open_file and not yet passed to close_file) at any time, and none once it
\* has returned or failed.
C20_HandlesClosed ==
    call.op = "upload" =>
        /\ call.open_files <= 1
        /\ call.pc = "idle" => call.open_files = 0

====
